---------------------------- MODULE Spec2Model ----------------------------
(***************************************************************************)
(* tee-n-splice: the tee(2)/splice(2) bindings (bindings.py), the retry    *)
(* engine and the eventlet adapter built on it (async_utils.py), and the   *)
(* pipe capacity utilities (pipes.py).                                     *)
(*                                                                         *)
(* Five harnesses share the module, one chosen by Init:                    *)
(*   "engine"     retry_while_errno over an abstract action whose outcome  *)
(*                the environment chooses at every invocation;             *)
(*   "wouldblock" run_and_retry_while_ewouldblock over an abstract wait    *)
(*                and an abstract action;                                  *)
(*   "transfer"   one async_utils.tee / async_utils.splice call over the   *)
(*                bindings, the kernel's pipes A and B and regular file F, *)
(*                and the eventlet hub;                                    *)
(*   "pair"       two such calls made by two greenlets of one thread, on   *)
(*                the pipes A, B and C, D;                                 *)
(*   "pipes"      pipes.py on one pipe and /proc/sys/fs/pipe-max-size.     *)
(***************************************************************************)
EXTENDS Integers, Sequences, FiniteSets, TLC

(***************************************************************************)
(* Program constants.                                                      *)
(***************************************************************************)
EPERM == 1
EINTR == 4
EWOULDBLOCK == 11
ENOMEM == 12
EINVAL == 22
ESPIPE == 29
SPLICE_F_NONBLOCK == 2
O_NONBLOCK == 2048
F_SETPIPE_SZ == 1031
F_GETPIPE_SZ == 1032

(***************************************************************************)
(* Bounds of the model.                                                    *)
(***************************************************************************)
PipeCap == 2      \* capacity of a pipe, in bytes
MaxLen == 2       \* largest len_ argument
MaxIntr == 2      \* EINTR failures injected into one call
MaxWB == 2        \* would-block failures followed within one call
MaxAttempts == 3  \* invocations of the abstract action in one engine call
MaxEvents == 5    \* invocations of wait and action in one would-block call
PageSize == 4     \* the page size of the kernel, in bytes

None == <<>>            \* Python None; a present value v is <<v>>
Pipes == {"A", "B", "C", "D"}
\* descriptors held by the caller: read end of A, write end of B, and the
\* regular file F, open for reading
Fds == {"Ar", "Bw", "F"}
PipeFds == {"Ar", "Bw"}
\* descriptors held by a second caller: read end of C, write end of D
Fds2 == {"Cr", "Dw"}
\* the pipe behind a pipe descriptor
PipeOf == [fd \in PipeFds \cup Fds2 |->
              IF fd = "Ar" THEN "A" ELSE IF fd = "Bw" THEN "B"
              ELSE IF fd = "Cr" THEN "C" ELSE "D"]
FileData == <<"a", "b">>
Lens == 0..MaxLen
Offsets == {None, <<1>>}
FlagArgs == {0, SPLICE_F_NONBLOCK}
Codes == {EINTR, EWOULDBLOCK, ENOMEM}
Vals == {0, 1}

IsPipe(fd) == fd \in PipeFds \cup Fds2

Min(a, b) == IF a < b THEN a ELSE b

RECURSIVE BitAnd(_, _)
BitAnd(a, b) ==
    IF a = 0 \/ b = 0 THEN 0
    ELSE 2 * BitAnd(a \div 2, b \div 2) + (IF a % 2 = 1 /\ b % 2 = 1 THEN 1 ELSE 0)

RECURSIVE BitOr(_, _)
BitOr(a, b) ==
    IF a = 0 THEN b
    ELSE IF b = 0 THEN a
    ELSE 2 * BitOr(a \div 2, b \div 2) + (IF a % 2 = 1 \/ b % 2 = 1 THEN 1 ELSE 0)

Take(s, n) == SubSeq(s, 1, n)
Drop(s, n) == SubSeq(s, n + 1, Len(s))

VARIABLES
    harness,   \* "engine", "wouldblock", "transfer", "pair" or "pipes"
    \* ---- kernel objects
    pipe,      \* pipe |-> bytes buffered in it
    wclosed,   \* the write end of pipe A has been closed
    fpos,      \* file position of descriptor F
    fl,        \* descriptor |-> file status flags (F_GETFL)
    \* ---- the call of tee / splice
    op,        \* "none", "tee" or "splice"
    args,      \* its arguments
    pc,        \* position of the calling greenlet
    blocked,   \* the thread sleeps inside the raw syscall
    outcome,   \* what the caller got
    \* ---- observation of that call
    nSys,      \* raw syscalls entered
    nIntr,     \* raw syscalls failed with EINTR
    nWB,       \* raw syscalls failed with EWOULDBLOCK
    nOk,       \* raw syscalls that succeeded
    nTramp,    \* calls of eventlet.hubs.trampoline
    reg,       \* listeners registered with the hub in this would-block cycle
    susp,      \* switches of the greenlet to the hub in this would-block cycle
    madeNB,    \* descriptors make_non_blocking has been called on
    last,      \* the last raw syscall and what the binding made of it
    \* ---- a second call of tee / splice, made by another greenlet
    op2, args2, pc2, blocked2, outcome2,
    reg2,      \* listeners it registered in its current would-block cycle
    \* ---- retry_while_errno over an abstract action
    r_pc, r_errnos, r_log, r_out,
    \* ---- run_and_retry_while_ewouldblock over an abstract wait and action
    g_pc,      \* position of the call
    g_log,     \* the invocations of wait and action so far, with their outcomes
    g_out,     \* what the caller got
    \* ---- pipes.py and the pipe it is used on
    p_cap,     \* capacity of the pipe in bytes
    p_max,     \* the value of /proc/sys/fs/pipe-max-size
    p_priv,    \* the process has CAP_SYS_RESOURCE
    p_read,    \* result of the last read_pipe_max_size()
    p_hist     \* the last two calls of get_pipe_size / set_pipe_size

kvars == <<pipe, wclosed, fpos, fl>>
cvars == <<op, args, pc, blocked, outcome>>
ovars == <<nSys, nIntr, nWB, nOk, nTramp, reg, susp, madeNB, last>>
rvars == <<r_pc, r_errnos, r_log, r_out>>
gvars == <<g_pc, g_log, g_out>>
pvars == <<p_cap, p_max, p_priv, p_read, p_hist>>
c2vars == <<op2, args2, pc2, blocked2, outcome2, reg2>>
\* the variables a step of the first transfer leaves alone
evars == <<rvars, gvars, pvars, c2vars>>
\* the variables of the transfers
tvars == <<kvars, cvars, ovars, c2vars>>
vars == <<harness, kvars, cvars, ovars, c2vars, rvars, gvars, pvars>>

(***************************************************************************)
(* The kernel: tee(2) and splice(2) on the pipes and the file F.           *)
(* A kernel result is the raw return value, errno, the kernel objects      *)
(* after the call and the values left in the two loff_t cells; sleep marks *)
(* a call that cannot return now and sleeps in the kernel.                 *)
(***************************************************************************)
KR(ret, err, p, fp, oi, oo) ==
    [sleep |-> FALSE, ret |-> ret, errno |-> err, pipe |-> p,
     fpos |-> fp, off_in |-> oi, off_out |-> oo]

KSame(ret, err, a) == KR(ret, err, pipe, fpos, a.off_in, a.off_out)

\* SPLICE_F_NONBLOCK in flags, or O_NONBLOCK on a pipe end of the transfer
NonBlocking(a) ==
    \/ BitAnd(a.flags, SPLICE_F_NONBLOCK) # 0
    \/ \E fd \in {a.fd_in, a.fd_out} : IsPipe(fd) /\ BitAnd(fl[fd], O_NONBLOCK) # 0

\* the call cannot proceed now: EAGAIN when non-blocking, else it sleeps
Stall(a) ==
    IF NonBlocking(a) THEN KSame(-1, EWOULDBLOCK, a)
    ELSE [KSame(0, 0, a) EXCEPT !.sleep = TRUE]

\* the pipes behind fd_in and fd_out
Src(a) == PipeOf[a.fd_in]
Dst(a) == PipeOf[a.fd_out]
\* every write end of pipe p has been closed
WriterClosed(p) == p = "A" /\ wclosed

KTee(a) ==
    IF a.len = 0 THEN KSame(0, 0, a)
    ELSE IF ~IsPipe(a.fd_in) \/ ~IsPipe(a.fd_out) THEN KSame(-1, EINVAL, a)
    ELSE IF pipe[Src(a)] = <<>> THEN (IF WriterClosed(Src(a)) THEN KSame(0, 0, a) ELSE Stall(a))
    ELSE IF Len(pipe[Dst(a)]) >= PipeCap THEN Stall(a)
    ELSE LET n == Min(a.len, Min(Len(pipe[Src(a)]), PipeCap - Len(pipe[Dst(a)])))
         IN  KR(n, 0, [pipe EXCEPT ![Dst(a)] = @ \o Take(pipe[Src(a)], n)],
                fpos, a.off_in, a.off_out)

KSplicePipes(a) ==
    IF a.off_in # None \/ a.off_out # None THEN KSame(-1, ESPIPE, a)
    ELSE IF pipe[Src(a)] = <<>> THEN (IF WriterClosed(Src(a)) THEN KSame(0, 0, a) ELSE Stall(a))
    ELSE IF Len(pipe[Dst(a)]) >= PipeCap THEN Stall(a)
    ELSE LET n == Min(a.len, Min(Len(pipe[Src(a)]), PipeCap - Len(pipe[Dst(a)])))
         IN  KR(n, 0, [pipe EXCEPT ![Src(a)] = Drop(@, n),
                                   ![Dst(a)] = @ \o Take(pipe[Src(a)], n)],
                fpos, a.off_in, a.off_out)

KSpliceFromFile(a) ==
    IF a.off_out # None THEN KSame(-1, ESPIPE, a)
    ELSE IF Len(pipe[Dst(a)]) >= PipeCap THEN Stall(a)
    ELSE LET p == IF a.off_in # None THEN a.off_in[1] ELSE fpos
             avail == IF Len(FileData) > p THEN Len(FileData) - p ELSE 0
             n == Min(a.len, Min(avail, PipeCap - Len(pipe[Dst(a)])))
         IN  KR(n, 0, [pipe EXCEPT ![Dst(a)] = @ \o SubSeq(FileData, p + 1, p + n)],
                IF a.off_in # None THEN fpos ELSE p + n,
                IF a.off_in # None THEN <<p + n>> ELSE None,
                a.off_out)

KSplice(a) ==
    IF a.len = 0 THEN KSame(0, 0, a)
    ELSE IF IsPipe(a.fd_in) THEN KSplicePipes(a)
    ELSE KSpliceFromFile(a)

\* variant: both bindings are bound to splice(2)
Kernel_SpliceForTee(o, a) == KSplice(a)

\* the libc function each binding is bound to: _libc.tee, _libc.splice
Kernel(o, a) == IF o = "tee" THEN KTee(a) ELSE KSplice(a)

\* what one raw syscall can do now: its regular result, a signal or no memory
KernelResults(o, a) ==
    {Kernel(o, a)}
    \cup (IF nIntr < MaxIntr THEN {KSame(-1, EINTR, a)} ELSE {})
    \cup {KSame(-1, ENOMEM, a)}

(***************************************************************************)
(* bindings.py: what a call of a binding gives its caller.  A returned     *)
(* value is a tuple: <<n>> stands for tee's bare byte count, and           *)
(* <<n, off_in, off_out>> is splice's triple.                              *)
(***************************************************************************)
Ok(v) == [kind |-> "ok", errno |-> 0, val |-> v]
OSError(e) == [kind |-> "OSError", errno |-> e, val |-> None]
AttributeError == [kind |-> "AttributeError", errno |-> 0, val |-> None]
NoOutcome == [kind |-> "none", errno |-> 0, val |-> None]

\* ctypes.byref(_c_loff_t(off)): a CArgObject around the cell, or None
ByRef(off) == IF off # None THEN <<[type |-> "CArgObject", obj |-> off[1]]>> ELSE None

\* the attribute `contents` exists on ctypes pointer instances only
HasContents(x) == x.type = "pointer"

TeeErrcheck(result, errno_) ==
    IF result = -1 THEN OSError(errno_) ELSE Ok(<<result>>)

SpliceErrcheck(result, errno_, off_in, off_out) ==
    IF result = -1 THEN OSError(errno_)
    ELSE IF \/ off_in # None /\ ~HasContents(off_in[1])
            \/ off_out # None /\ ~HasContents(off_out[1])
         THEN AttributeError
    ELSE Ok(<<result,
              IF off_in # None THEN <<off_in[1].obj>> ELSE None,
              IF off_out # None THEN <<off_out[1].obj>> ELSE None>>)

\* the binding's result for the kernel result k of its one raw syscall
Binding(o, k) ==
    IF o = "tee" THEN TeeErrcheck(k.ret, k.errno)
    ELSE SpliceErrcheck(k.ret, k.errno, ByRef(k.off_in), ByRef(k.off_out))

(***************************************************************************)
(* async_utils.py: the retry engine.                                       *)
(***************************************************************************)
\* variant: a recoverable failure is raised instead of retried
RetryStep_GivesUp(b, errnos) ==
    IF b.kind = "ok" THEN "return" ELSE "raise"

\* variant: every OSError is retried, whatever its code
RetryStep_RetriesAll(b, errnos) ==
    IF b.kind = "ok" THEN "return"
    ELSE IF b.kind = "OSError" THEN "continue"
    ELSE "raise"

\* one turn of retry_while_errno's loop on the outcome b of action()
RetryStep(b, errnos) ==
    IF b.kind = "ok" THEN "return"
    ELSE IF b.kind = "OSError" /\ b.errno \in errnos THEN "continue"
    ELSE "raise"

\* variant: the inner loop retries nothing
InnerErrnos_None == {}

\* errnos of the inner retry_while_errno of tee/splice
InnerErrnos == {EINTR}

\* variant: EINTR is retried by the outer loop as well
OuterErrnos_WithEINTR == {EWOULDBLOCK, EINTR}

\* errnos of the retry_while_errno inside run_and_retry_while_ewouldblock
OuterErrnos == {EWOULDBLOCK}

\* the handler around the first action(): TRUE when the exception is swallowed
FirstCatch(b) == b.kind = "OSError" /\ ~(b.errno # EWOULDBLOCK)

\* lines 51-55: where the call goes when the first action() gave b
FirstNext(b) ==
    IF b.kind = "ok" THEN "done"
    ELSE IF FirstCatch(b) THEN "wait"
    ELSE "done"

\* variant: wait() runs outside the retry loop, its errors are not examined
WaitNext_Unguarded(w) == IF w.kind = "ok" THEN "action" ELSE "done"

\* lines 57-61: wait() inside wait_and_do gave w; its exception leaves
\* wait_and_do and is examined by retry_while_errno, which calls
\* wait_and_do again from its start
WaitNext(w) ==
    IF w.kind = "ok" THEN "action"
    ELSE IF RetryStep(w, OuterErrnos) = "continue" THEN "wait"
    ELSE "done"

\* variant: the retry loop is given action instead of wait_and_do
ActionNext_NoWait(b) ==
    IF RetryStep(b, OuterErrnos) = "continue" THEN "action" ELSE "done"

\* lines 57-61: action() inside wait_and_do gave b
ActionNext(b) ==
    IF RetryStep(b, OuterErrnos) = "continue" THEN "wait" ELSE "done"

\* where the calling greenlet goes from p when the binding gave b
CoopNext(p, b) ==
    LET inner == RetryStep(b, InnerErrnos)
    IN  IF inner = "continue" THEN p
        ELSE IF inner = "return" THEN "done"
        ELSE IF p = "first" THEN (IF FirstCatch(b) THEN "wait" ELSE "done")
        ELSE IF RetryStep(b, OuterErrnos) = "continue" THEN "wait"
        ELSE "done"

\* variant: wait() awaits the output side first
WaitPlan_OutFirst(a) == << <<a.fd_out, "write">>, <<a.fd_in, "read">> >>

\* variant: wait() awaits the input side only
WaitPlan_InOnly(a) == << <<a.fd_in, "read">> >>

\* wait(): the trampoline calls of tee.wait / splice.wait, in program order
WaitPlan(a) == << <<a.fd_in, "read">>, <<a.fd_out, "write">> >>

\* variant: the bit is added to the flags arithmetically
NonBlockFlags_Plus(flags) == flags + O_NONBLOCK

\* variant: the flags are written back as read
NonBlockFlags_Same(flags) == flags

\* make_non_blocking: the flags handed to F_SETFL
NonBlockFlags(flags) == BitOr(flags, O_NONBLOCK)

(***************************************************************************)
(* The eventlet hub: readiness of a descriptor.                            *)
(***************************************************************************)
Readable(fd) ==
    IF fd \in {"Ar", "Cr"} THEN pipe[PipeOf[fd]] # <<>> \/ WriterClosed(PipeOf[fd])
    ELSE TRUE
Writable(fd) ==
    IF fd \in {"Bw", "Dw"} THEN Len(pipe[PipeOf[fd]]) < PipeCap ELSE TRUE
Ready(l) == IF l[2] = "read" THEN Readable(l[1]) ELSE Writable(l[1])

\* F_GETFL of the descriptors as opened: O_RDONLY, and O_WRONLY for Bw
OpenFlags == [fd \in Fds \cup Fds2 |-> IF fd \in {"Bw", "Dw"} THEN 1 ELSE 0]

TeeArgs ==
    [fd_in : {"Ar", "F"}, fd_out : {"Bw"}, off_in : {None}, off_out : {None},
     len : Lens, flags : FlagArgs]
SpliceArgs ==
    [fd_in : {"Ar", "F"}, fd_out : {"Bw"}, off_in : Offsets, off_out : Offsets,
     len : Lens, flags : FlagArgs]
NoArgs ==
    [fd_in |-> "Ar", fd_out |-> "Bw", off_in |-> None, off_out |-> None,
     len |-> 0, flags |-> 0]
NoLast == [sys |-> FALSE, ret |-> 0, errno |-> 0, off_in |-> None, off_out |-> None,
           out |-> NoOutcome]

(***************************************************************************)
(* pipes.py, the fcntl(2) commands it issues on one pipe, and the text of  *)
(* /proc/sys/fs/pipe-max-size.                                             *)
(***************************************************************************)
IOError(e) == [kind |-> "IOError", errno |-> e, val |-> None]
ValueError == [kind |-> "ValueError", errno |-> 0, val |-> None]

Digits == <<"0", "1", "2", "3", "4", "5", "6", "7", "8", "9">>
Whitespace == {" ", "\t", "\n"}

\* the kernel's rendering of an integer in procfs: decimal digits, newline
RECURSIVE Decimal(_)
Decimal(n) ==
    IF n < 10 THEN <<Digits[n + 1]>>
    ELSE Decimal(n \div 10) \o <<Digits[(n % 10) + 1]>>
ProcText(n) == Decimal(n) \o <<"\n">>

\* data.strip()
RECURSIVE LStrip(_)
LStrip(s) == IF s # <<>> /\ Head(s) \in Whitespace THEN LStrip(Tail(s)) ELSE s
RECURSIVE RStrip(_)
RStrip(s) ==
    IF s # <<>> /\ s[Len(s)] \in Whitespace THEN RStrip(SubSeq(s, 1, Len(s) - 1))
    ELSE s
Strip(s) == RStrip(LStrip(s))

\* int(text) of a text of decimal digits
DigitVal(c) == CHOOSE d \in 0..9 : Digits[d + 1] = c
RECURSIVE DecimalValue(_)
DecimalValue(s) ==
    IF s = <<>> THEN 0
    ELSE 10 * DecimalValue(SubSeq(s, 1, Len(s) - 1)) + DigitVal(s[Len(s)])
PyInt(s) ==
    IF s = <<>> \/ \E i \in 1..Len(s) : \A d \in 1..10 : Digits[d] # s[i]
    THEN ValueError
    ELSE Ok(<<DecimalValue(s)>>)

\* variant: only the first character of the stripped text is converted
read_pipe_max_size_FirstChar(data) == PyInt(SubSeq(Strip(data), 1, 1))

read_pipe_max_size(data) == PyInt(Strip(data))

\* the capacity the kernel gives a pipe asked to hold n bytes: a power of
\* two number of pages, at least one page
RECURSIVE RoundUpPow2(_, _)
RoundUpPow2(size, n) == IF size >= n THEN size ELSE RoundUpPow2(2 * size, n)
RoundPipeSize(n) == RoundUpPow2(PageSize, n)

\* fcntl(2) with F_GETPIPE_SZ or F_SETPIPE_SZ on the pipe: the raw return
\* value, errno and the capacity of the pipe after the call
Fcntl(cmd, arg) ==
    IF cmd = F_GETPIPE_SZ THEN [ret |-> p_cap, errno |-> 0, cap |-> p_cap]
    ELSE LET size == RoundPipeSize(arg)
         IN  IF size > p_cap /\ size > p_max /\ ~p_priv
             THEN [ret |-> -1, errno |-> EPERM, cap |-> p_cap]
             ELSE [ret |-> size, errno |-> 0, cap |-> size]

\* fcntl.fcntl: the integer the kernel returned, or IOError with errno
PyFcntl(k) == IF k.ret = -1 THEN IOError(k.errno) ELSE Ok(<<k.ret>>)

get_pipe_size == Fcntl(F_GETPIPE_SZ, 0)

\* variant: the command issued is F_GETPIPE_SZ
set_pipe_size_GetCmd(size) == Fcntl(F_GETPIPE_SZ, size)

set_pipe_size(size) == Fcntl(F_SETPIPE_SZ, size)

SizeArgs == 0..(4 * PageSize + 1)
PipeCall(f, size, k, before) ==
    [f |-> f, size |-> size, out |-> PyFcntl(k), before |-> before]
NoPipeCall == [f |-> "none", size |-> 0, out |-> NoOutcome, before |-> 0]

Init ==
    /\ harness \in {"engine", "wouldblock", "transfer", "pair", "pipes"}
    /\ pipe = [p \in Pipes |-> <<>>]
    /\ wclosed = FALSE
    /\ fpos = 0
    /\ fl = OpenFlags
    /\ op = "none" /\ args = NoArgs /\ pc = "idle" /\ blocked = FALSE
    /\ outcome = NoOutcome
    /\ nSys = 0 /\ nIntr = 0 /\ nWB = 0 /\ nOk = 0 /\ nTramp = 0 /\ last = NoLast
    /\ reg = <<>> /\ susp = 0 /\ madeNB = {}
    /\ op2 = "none" /\ args2 = NoArgs /\ pc2 = "idle" /\ blocked2 = FALSE
    /\ outcome2 = NoOutcome /\ reg2 = <<>>
    /\ r_pc = "idle" /\ r_errnos = {} /\ r_log = <<>> /\ r_out = NoOutcome
    /\ g_pc = "idle" /\ g_log = <<>> /\ g_out = NoOutcome
    \* an unprivileged process gets its pipes with a capacity within the limit
    /\ p_max \in (IF harness = "pipes" THEN {2 * PageSize, 4 * PageSize}
                  ELSE {4 * PageSize})
    /\ p_priv \in (IF harness = "pipes" THEN BOOLEAN ELSE {FALSE})
    /\ p_cap \in (IF harness = "pipes" THEN {PageSize, 2 * PageSize} ELSE {PageSize})
    /\ p_read = NoOutcome
    /\ p_hist = <<NoPipeCall, NoPipeCall>>

(***************************************************************************)
(* Other processes at the far ends of the pipes.                           *)
(***************************************************************************)
\* the byte value the writers at the far end of each pipe write
WriterByte == [p \in Pipes |-> IF p \in {"A", "C"} THEN "a" ELSE "b"]

\* a write(2) of one byte into pipe p by a process holding its write end
Produce(p) ==
    /\ \/ harness = "transfer" /\ p \in {"A", "B"}
       \/ harness = "pair" /\ p \in {"A", "C"}
    /\ p = "A" => ~wclosed
    /\ Len(pipe[p]) < PipeCap
    /\ pipe' = [pipe EXCEPT ![p] = Append(@, WriterByte[p])]
    /\ UNCHANGED <<harness, wclosed, fpos, fl, cvars, ovars, evars>>

\* the last write end of pipe A is closed
CloseWriter ==
    /\ harness = "transfer"
    /\ ~wclosed
    /\ wclosed' = TRUE
    /\ UNCHANGED <<harness, pipe, fpos, fl, cvars, ovars, evars>>

\* a read(2) of one byte from pipe B by the process at its read end
Consume ==
    /\ harness = "transfer"
    /\ pipe["B"] # <<>>
    /\ pipe' = [pipe EXCEPT !["B"] = Tail(@)]
    /\ UNCHANGED <<harness, wclosed, fpos, fl, cvars, ovars, evars>>

\* make_non_blocking(fd) on a pipe descriptor, run by the program while the
\* transfer does not run
MakeNonBlocking(fd) ==
    /\ harness = "transfer"
    /\ pc \in {"idle", "done", "wait"}
    /\ LET flags == fl[fd]
       IN  fl' = [fl EXCEPT ![fd] = NonBlockFlags(flags)]
    /\ madeNB' = madeNB \cup {fd}
    /\ UNCHANGED <<harness, pipe, wclosed, fpos, cvars, nSys, nIntr, nWB, nOk, nTramp,
                   reg, susp, last, evars>>

(***************************************************************************)
(* async_utils.tee / async_utils.splice.                                   *)
(***************************************************************************)
\* arguments of the calls of the pair harness: one byte between two pipes
PairArgs(fd_in, fd_out) ==
    [fd_in : {fd_in}, fd_out : {fd_out}, off_in : {None}, off_out : {None},
     len : {1}, flags : FlagArgs]

\* a greenlet at position p does not hold the thread: it has not started,
\* has switched to the hub inside a trampoline of wait(), or has ended;
\* tee / splice switch nowhere else
Suspended(p) == p \in {"idle", "wait", "done"}

Call(o, a) ==
    /\ \/ harness = "transfer"
       \/ harness = "pair" /\ a \in PairArgs("Ar", "Bw")
    /\ Suspended(pc2)
    /\ pc = "idle"
    /\ op' = o /\ args' = a /\ pc' = "first" /\ blocked' = FALSE
    /\ outcome' = NoOutcome
    /\ nSys' = 0 /\ nIntr' = 0 /\ nWB' = 0 /\ nOk' = 0 /\ nTramp' = 0 /\ last' = NoLast
    /\ reg' = <<>> /\ susp' = 0
    /\ UNCHANGED <<harness, kvars, madeNB, evars>>

\* the raw syscall has nothing to return now: the thread sleeps in it
SysBlock ==
    /\ pc \in {"first", "retry"} /\ ~blocked
    /\ Suspended(pc2)
    /\ Kernel(op, args).sleep
    /\ blocked' = TRUE
    /\ nSys' = nSys + 1
    /\ UNCHANGED <<harness, kvars, op, args, pc, outcome, nIntr, nWB, nOk, nTramp,
                   reg, susp, madeNB, last, evars>>

\* bindings.tee / bindings.splice returns or raises, and the engine reacts
SysReturn ==
    /\ pc \in {"first", "retry"}
    /\ Suspended(pc2)
    /\ \E k \in KernelResults(op, args) :
         LET b == Binding(op, k)
             wb == k.ret = -1 /\ k.errno = EWOULDBLOCK
             npc == CoopNext(pc, b)
         IN  /\ ~k.sleep
             /\ wb => nWB < MaxWB
             /\ pipe' = k.pipe /\ fpos' = k.fpos
             /\ blocked' = FALSE
             /\ nSys' = IF blocked THEN nSys ELSE nSys + 1
             /\ nIntr' = IF k.ret = -1 /\ k.errno = EINTR THEN nIntr + 1 ELSE nIntr
             /\ nWB' = IF wb THEN nWB + 1 ELSE nWB
             /\ nOk' = IF k.ret # -1 THEN nOk + 1 ELSE nOk
             /\ last' = [sys |-> TRUE, ret |-> k.ret, errno |-> k.errno,
                         off_in |-> k.off_in, off_out |-> k.off_out, out |-> b]
             /\ pc' = npc
             \* wait() starts: the first trampoline registers and switches
             /\ IF npc = "wait"
                THEN /\ reg' = <<WaitPlan(args)[1]>>
                     /\ susp' = 1
                     /\ nTramp' = nTramp + 1
                ELSE UNCHANGED <<reg, susp, nTramp>>
             /\ outcome' = IF npc = "done" THEN b ELSE outcome
    /\ UNCHANGED <<harness, wclosed, fl, op, args, madeNB, evars>>

\* the hub finds the awaited descriptor ready and switches back: the
\* trampoline returns, and either the next trampoline of wait() registers
\* and switches to the hub, or wait() returns and action() follows
HubResume ==
    /\ pc = "wait"
    /\ Suspended(pc2)
    /\ Ready(reg[Len(reg)])
    /\ IF Len(reg) < Len(WaitPlan(args))
       THEN /\ reg' = Append(reg, WaitPlan(args)[Len(reg) + 1])
            /\ susp' = susp + 1
            /\ nTramp' = nTramp + 1
            /\ pc' = pc
       ELSE /\ pc' = "retry"
            /\ UNCHANGED <<reg, susp, nTramp>>
    /\ UNCHANGED <<harness, kvars, op, args, blocked, outcome, nSys, nIntr, nWB, nOk,
                   madeNB, last, evars>>

(***************************************************************************)
(* A second call of async_utils.tee / async_utils.splice, made by another  *)
(* greenlet of the same thread on the descriptors Cr and Dw.               *)
(***************************************************************************)
\* variant: the closures of a call read the arguments of the other call
Closure2_Shared == [op |-> op, args |-> args]

\* what action and wait of the second call refer to: the arguments of
\* their own call, captured by the closures
Closure2 == [op |-> op2, args |-> args2]

\* what one raw syscall of the second call can do now
KernelResults2(o, a) ==
    {Kernel(o, a), KSame(-1, EINTR, a), KSame(-1, ENOMEM, a)}

Call2(o, a) ==
    /\ harness = "pair"
    /\ Suspended(pc)
    /\ pc2 = "idle"
    /\ op2' = o /\ args2' = a /\ pc2' = "first" /\ blocked2' = FALSE
    /\ outcome2' = NoOutcome /\ reg2' = <<>>
    /\ UNCHANGED <<harness, kvars, cvars, ovars, rvars, gvars, pvars>>

SysBlock2 ==
    /\ pc2 \in {"first", "retry"} /\ ~blocked2
    /\ Suspended(pc)
    /\ Kernel(Closure2.op, Closure2.args).sleep
    /\ blocked2' = TRUE
    /\ UNCHANGED <<harness, kvars, cvars, ovars, rvars, gvars, pvars,
                   op2, args2, pc2, outcome2, reg2>>

SysReturn2 ==
    /\ pc2 \in {"first", "retry"}
    /\ Suspended(pc)
    /\ \E k \in KernelResults2(Closure2.op, Closure2.args) :
         LET b == Binding(Closure2.op, k)
             npc == CoopNext(pc2, b)
         IN  /\ ~k.sleep
             /\ pipe' = k.pipe /\ fpos' = k.fpos
             /\ blocked2' = FALSE
             /\ pc2' = npc
             /\ reg2' = IF npc = "wait" THEN <<WaitPlan(Closure2.args)[1]>> ELSE reg2
             /\ outcome2' = IF npc = "done" THEN b ELSE outcome2
    /\ UNCHANGED <<harness, wclosed, fl, cvars, ovars, rvars, gvars, pvars, op2, args2>>

HubResume2 ==
    /\ pc2 = "wait"
    /\ Suspended(pc)
    /\ Ready(reg2[Len(reg2)])
    /\ IF Len(reg2) < Len(WaitPlan(Closure2.args))
       THEN /\ reg2' = Append(reg2, WaitPlan(Closure2.args)[Len(reg2) + 1])
            /\ pc2' = pc2
       ELSE /\ pc2' = "retry"
            /\ reg2' = reg2
    /\ UNCHANGED <<harness, kvars, cvars, ovars, rvars, gvars, pvars,
                   op2, args2, blocked2, outcome2>>

(***************************************************************************)
(* retry_while_errno(action, errnos) over an abstract action.              *)
(***************************************************************************)
ActionOutcomes ==
    {Ok(<<v>>) : v \in Vals} \cup {OSError(e) : e \in Codes} \cup {AttributeError}

RCall(errnos) ==
    /\ harness = "engine"
    /\ r_pc \in {"idle", "done"}
    /\ r_pc' = "loop" /\ r_errnos' = errnos /\ r_log' = <<>> /\ r_out' = NoOutcome
    /\ UNCHANGED <<harness, tvars, gvars, pvars>>

RInvoke ==
    /\ r_pc = "loop"
    /\ Len(r_log) < MaxAttempts
    /\ \E b \in ActionOutcomes :
         /\ r_log' = Append(r_log, b)
         /\ IF RetryStep(b, r_errnos) = "continue"
            THEN r_pc' = "loop" /\ r_out' = r_out
            ELSE r_pc' = "done" /\ r_out' = b
    /\ UNCHANGED <<harness, tvars, gvars, pvars, r_errnos>>

(***************************************************************************)
(* run_and_retry_while_ewouldblock(wait, action) over an abstract wait and *)
(* an abstract action.                                                     *)
(***************************************************************************)
\* wait() returns None or raises
WaitOutcomes == {Ok(None)} \cup {OSError(e) : e \in Codes} \cup {AttributeError}

Event(f, out) == [f |-> f, out |-> out]

GCall ==
    /\ harness = "wouldblock"
    /\ g_pc \in {"idle", "done"}
    /\ g_pc' = "first" /\ g_log' = <<>> /\ g_out' = NoOutcome
    /\ UNCHANGED <<harness, tvars, rvars, pvars>>

\* action() is invoked: the first time, or by wait_and_do after wait()
GAction ==
    /\ g_pc \in {"first", "action"}
    /\ Len(g_log) < MaxEvents
    /\ \E b \in ActionOutcomes :
         LET npc == IF g_pc = "first" THEN FirstNext(b) ELSE ActionNext(b)
         IN  /\ g_log' = Append(g_log, Event("action", b))
             /\ g_pc' = npc
             /\ g_out' = IF npc = "done" THEN b ELSE g_out
    /\ UNCHANGED <<harness, tvars, rvars, pvars>>

\* wait() is invoked by wait_and_do
GWait ==
    /\ g_pc = "wait"
    /\ Len(g_log) < MaxEvents
    /\ \E w \in WaitOutcomes :
         LET npc == WaitNext(w)
         IN  /\ g_log' = Append(g_log, Event("wait", w))
             /\ g_pc' = npc
             /\ g_out' = IF npc = "done" THEN w ELSE g_out
    /\ UNCHANGED <<harness, tvars, rvars, pvars>>

(***************************************************************************)
(* pipes.py: read_pipe_max_size, get_pipe_size, set_pipe_size.             *)
(***************************************************************************)
ReadPipeMaxSize ==
    /\ harness = "pipes"
    /\ p_read' = read_pipe_max_size(ProcText(p_max))
    /\ UNCHANGED <<harness, tvars, rvars, gvars, p_cap, p_max, p_priv, p_hist>>

GetPipeSize ==
    /\ harness = "pipes"
    /\ LET k == get_pipe_size
       IN  /\ p_cap' = k.cap
           /\ p_hist' = <<p_hist[2], PipeCall("get", 0, k, p_cap)>>
    /\ UNCHANGED <<harness, tvars, rvars, gvars, p_max, p_priv, p_read>>

SetPipeSize(size) ==
    /\ harness = "pipes"
    /\ LET k == set_pipe_size(size)
       IN  /\ p_cap' = k.cap
           /\ p_hist' = <<p_hist[2], PipeCall("set", size, k, p_cap)>>
    /\ UNCHANGED <<harness, tvars, rvars, gvars, p_max, p_priv, p_read>>

Next ==
    \/ \E p \in Pipes : Produce(p)
    \/ CloseWriter
    \/ Consume
    \/ \E fd \in PipeFds : MakeNonBlocking(fd)
    \/ \E a \in TeeArgs : Call("tee", a)
    \/ \E a \in SpliceArgs : Call("splice", a)
    \/ SysBlock
    \/ SysReturn
    \/ HubResume
    \/ \E o \in {"tee", "splice"} : \E a \in PairArgs("Cr", "Dw") : Call2(o, a)
    \/ SysBlock2
    \/ SysReturn2
    \/ HubResume2
    \/ \E e \in SUBSET Codes : RCall(e)
    \/ RInvoke
    \/ GCall
    \/ GAction
    \/ GWait
    \/ ReadPipeMaxSize
    \/ GetPipeSize
    \/ \E size \in SizeArgs : SetPipeSize(size)

Spec == Init /\ [][Next]_vars

\* the calling greenlet, when it is not asleep in the kernel, goes on to its
\* next raw syscall: neither loop has a delay or a bound
Running == ~blocked /\ (SysBlock \/ SysReturn)

LiveSpec == Spec /\ WF_vars(Running)

(***************************************************************************)
(* Properties.                                                             *)
(***************************************************************************)
\* an outcome of the abstract action that retry_while_errno retries
Recoverable(b) == b.kind = "OSError" /\ b.errno \in r_errnos
\* an outcome of the abstract action that fails with a code not in errnos
Fatal(b) == b.kind = "OSError" /\ b.errno \notin r_errnos

\* C1: retry_while_errno(action, errnos) invokes action until it returns or
\* fails with a code outside errnos: while every attempt so far failed with a
\* code in errnos the call is still looping and has returned nothing; no
\* attempt follows an attempt that did not fail with a code in errnos; and
\* after N such failures and a success v the call has ended after exactly
\* N+1 invocations and returned exactly v.
C1_RetryUntilSuccess ==
    r_pc # "idle" =>
        LET n == Len(r_log)
        IN  /\ \A i \in 1..(n - 1) : Recoverable(r_log[i])
            /\ (\A i \in 1..n : Recoverable(r_log[i])) => r_pc = "loop" /\ r_out = NoOutcome
            /\ (n > 0 /\ r_log[n].kind = "ok") => r_pc = "done" /\ r_out = r_log[n]

\* two different recoverable failures, then a success that was returned
C1_Witness ==
    /\ r_pc = "done" /\ Len(r_log) = 3
    /\ Recoverable(r_log[1]) /\ Recoverable(r_log[2]) /\ r_log[1] # r_log[2]
    /\ r_log[3].kind = "ok" /\ r_out = r_log[3]

\* the last raw syscall of the transfer failed with a code that is neither
\* EINTR nor EWOULDBLOCK
FatalSyscall == last.sys /\ last.ret = -1 /\ last.errno \notin {EINTR, EWOULDBLOCK}

C2_Inv ==
    /\ r_pc # "idle" =>
         /\ \A i \in 1..(Len(r_log) - 1) : ~Fatal(r_log[i])
         /\ (Len(r_log) > 0 /\ Fatal(r_log[Len(r_log)])) =>
                r_pc = "done" /\ r_out = r_log[Len(r_log)]
    /\ FatalSyscall => pc = "done" /\ outcome = OSError(last.errno)

C2_Step ==
    FatalSyscall => nSys' = nSys /\ nTramp' = nTramp /\ pc' = pc /\ outcome' = outcome

\* C2: a fatal failure is propagated unchanged and never retried: when the
\* action of retry_while_errno fails with a code not in errnos, or a raw
\* syscall of the eventlet tee/splice fails with a code other than EINTR and
\* EWOULDBLOCK (first attempt, after EINTR retries or after would-block
\* cycles), the call ends at once with an error of that same code, and no
\* action, syscall or trampoline is invoked afterwards.
C2_FatalPropagates == []C2_Inv /\ [][C2_Step]_vars

\* ENOMEM reached the caller after an interrupted retry and a would-block cycle
C2_Witness ==
    /\ pc = "done" /\ outcome = OSError(ENOMEM)
    /\ nIntr >= 1 /\ nWB >= 1 /\ nSys >= 3

\* what the last raw syscall really did, in the shape the binding documents:
\* tee's byte count, splice's (byte count, off_in after, off_out after)
RealResult ==
    IF op = "tee" THEN <<last.ret>> ELSE <<last.ret, last.off_in, last.off_out>>

\* the trampolines of the current would-block cycle that have returned
Confirmed == IF pc = "wait" THEN SubSeq(reg, 1, Len(reg) - 1) ELSE reg

\* C3: interruption is transparent in the eventlet tee/splice: when the raw
\* syscall failed N >= 0 times with EINTR and then produced a real result,
\* the caller has received exactly that result, no trampoline was called,
\* and exactly one raw syscall of the N+1 succeeded.
C3_InterruptionTransparent ==
    (pc = "done" /\ nWB = 0 /\ last.sys /\ last.ret # -1) =>
        /\ outcome = Ok(RealResult)
        /\ nTramp = 0
        /\ nOk = 1 /\ nSys = nIntr + 1

\* C4: after a would-block failure the raw syscall is invoked again only
\* when both trampolines have returned (fd_in readable, then fd_out
\* writable); while only one has, the call stays suspended; and the call
\* then returns the real result of the raw syscall.
C4_ResumeWhenBothReady ==
    /\ (pc = "retry" /\ nWB >= 1) =>
           Confirmed = << <<args.fd_in, "read">>, <<args.fd_out, "write">> >>
    /\ (pc = "wait" /\ Len(Confirmed) < 2) => ~blocked /\ last.errno = EWOULDBLOCK
    /\ (pc = "done" /\ nWB >= 1 /\ last.ret # -1) => outcome = Ok(RealResult)

\* C5: the caller of the eventlet tee/splice sees either a successful
\* result or an error carrying the code of the failed raw syscall, which is
\* neither EINTR nor EWOULDBLOCK.
C5_TransientCodesInvisible ==
    pc = "done" =>
        \/ outcome.kind = "ok"
        \/ /\ outcome.kind = "OSError"
           /\ last.ret = -1 /\ outcome.errno = last.errno
           /\ outcome.errno \notin {EINTR, EWOULDBLOCK}

\* C6: a raw syscall that returns 0 bytes moved ends the call at once, and
\* the caller receives that zero-byte result as it is.
C6_ZeroResultReturned ==
    (last.sys /\ last.ret = 0) => pc = "done" /\ outcome = Ok(RealResult)

\* C7 as stated: the caller is suspended exactly once per would-block cycle,
\* and only after both readiness conditions have been registered.
C7_OneSuspensionPerCycle ==
    /\ pc = "wait" => susp = 1 /\ Len(reg) = 2 /\ ~blocked
    /\ (pc \in {"retry", "done"} /\ nWB >= 1) => susp = 1

C7_Expected == << <<args.fd_in, "read">>, <<args.fd_out, "write">> >>

\* C7: the caller is suspended exactly twice per would-block cycle, once in
\* each trampoline: first with only fd_in's read listener registered, then,
\* once the hub has confirmed it, with fd_out's write listener registered;
\* the raw syscall is retried after the second, and the caller is never
\* suspended while a raw syscall is in progress.
C7_TwoSuspensionsPerCycle ==
    /\ pc = "wait" =>
         /\ Len(reg) \in {1, 2} /\ reg = SubSeq(C7_Expected, 1, Len(reg))
         /\ susp = Len(reg)
         /\ nTramp = 2 * (nWB - 1) + susp
         /\ ~blocked
    /\ (pc \in {"retry", "done"} /\ nWB >= 1) => susp = 2 /\ reg = C7_Expected
    /\ pc # "wait" => nTramp = 2 * nWB
    /\ blocked => pc \in {"first", "retry"}

\* the second suspension of the second would-block cycle
C7_Witness == pc = "wait" /\ nWB = 2 /\ susp = 2 /\ nTramp = 4

\* C8 as stated: the raw syscall never sleeps in the kernel.
C8_NeverBlocks == ~blocked

\* the caller asked for non-blocking operation: SPLICE_F_NONBLOCK in flags,
\* or make_non_blocking called on a pipe descriptor of the transfer
NBRequested ==
    \/ BitAnd(args.flags, SPLICE_F_NONBLOCK) # 0
    \/ \E fd \in madeNB \cap {args.fd_in, args.fd_out} : IsPipe(fd)

\* the transfer cannot proceed now
Stalled ==
    LET k == Kernel(op, args)
    IN  k.sleep \/ (k.ret = -1 /\ k.errno = EWOULDBLOCK)

C8_Inv ==
    /\ NBRequested => ~blocked
    /\ blocked => pc \in {"first", "retry"}

C8_Step ==
    /\ (pc \in {"first", "retry"} /\ NBRequested /\ Stalled /\ nSys' = nSys + 1) =>
          /\ ~blocked'
          /\ last'.ret = -1 /\ last'.errno \in {EWOULDBLOCK, EINTR, ENOMEM}
          /\ last'.errno = EWOULDBLOCK => pc' = "wait"
    /\ (pc # "idle" /\ susp' # susp) => pc' = "wait" /\ ~blocked
    /\ (pc = "wait" /\ <<pc, reg>>' # <<pc, reg>>) => Ready(reg[Len(reg)])

\* C8: provided SPLICE_F_NONBLOCK is in flags or make_non_blocking has been
\* called on a pipe descriptor of the transfer, the eventlet tee/splice never
\* blocks the thread: a transfer that cannot proceed makes the raw syscall
\* fail (with EWOULDBLOCK, unless a signal or lack of memory fails it first)
\* instead of sleeping, the caller gives up control only in the trampolines
\* of the wait step, and it leaves a trampoline only when the hub finds the
\* awaited descriptor ready.
C8_NonBlockingNeverBlocks == []C8_Inv /\ [][C8_Step]_vars

\* make_non_blocking alone (flags 0) turned a stall into a would-block cycle
C8_Witness ==
    /\ args.flags = 0 /\ madeNB # {} /\ NBRequested
    /\ pc = "wait" /\ last.ret = -1 /\ last.errno = EWOULDBLOCK

\* C9: at the binding a raw return value of -1 raises OSError with errno,
\* and any other raw return value, zero included, is a success whose byte
\* count is the raw return value.
C9_ErrcheckSentinel ==
    last.sys =>
        /\ last.ret = -1 => last.out = OSError(last.errno)
        /\ last.ret # -1 => last.out.kind = "ok" /\ last.out.val[1] = last.ret

\* C10: a successful splice returns (bytes_moved, new_off_in, new_off_out),
\* each offset being the value after the call when one was supplied for
\* that side and None when none was.
C10_SpliceReturnsOffsets ==
    (last.sys /\ op = "splice" /\ last.ret # -1) =>
        last.out = Ok(<<last.ret, last.off_in, last.off_out>>)

\* a raw syscall returns now having moved at least one byte out of pipe A
MovedFromPipe ==
    /\ pc \in {"first", "retry"} /\ IsPipe(args.fd_in)
    /\ nOk' = nOk + 1 /\ last'.ret > 0

C11_Step ==
    MovedFromPipe =>
        LET n == last'.ret
        IN  /\ n <= args.len /\ n <= Len(pipe["A"])
            /\ pipe'["B"] = pipe["B"] \o Take(pipe["A"], n)
            /\ op = "tee" =>
                  /\ pipe'["A"] = pipe["A"]
                  /\ outcome' = Ok(<<n>>)
            /\ op = "splice" =>
                  /\ pipe["A"] = Take(pipe["A"], n) \o pipe'["A"]
                  /\ Len(pipe'["A"]) = Len(pipe["A"]) - n
                  /\ outcome' = Ok(<<n, None, None>>)
            /\ (Len(pipe["A"]) = args.len /\ pipe["B"] = <<>>) =>
                  /\ n = args.len
                  /\ op = "splice" => pipe'["A"] = <<>>

\* C11: tee does not consume its source and splice does: a successful tee
\* out of pipe A returns the byte count n, appends the first n bytes of A
\* to the destination pipe and leaves the contents of A unchanged; a
\* successful splice out of pipe A (no offsets) returns n, appends the same
\* bytes to the destination and removes exactly those n bytes from the
\* front of A; with A holding len bytes and the destination empty, n = len
\* and the splice leaves A empty.
C11_TeeKeepsSpliceConsumes == [][C11_Step]_vars

\* a tee of a full pipe A into the empty pipe B returned the full count and
\* left A as it was
C11_Witness ==
    /\ op = "tee" /\ pc = "done" /\ args.len = 2 /\ outcome = Ok(<<2>>)
    /\ nSys = 1 /\ Len(pipe["A"]) = 2 /\ pipe["B"] = pipe["A"]

\* C12: pipe capacity round trip: a successful set_pipe_size(fd, size)
\* returns the capacity the pipe now has, a get_pipe_size(fd) that follows
\* it returns that same value, the value is at least size and a whole
\* number of pages, and for a process without privilege it does not exceed
\* the value read_pipe_max_size returned.
C12_CapacityRoundTrip ==
    LET s == p_hist[1]
        g == p_hist[2]
        Applied(c) ==
            /\ c.out.val[1] >= c.size
            /\ c.out.val[1] % PageSize = 0
            /\ (~p_priv /\ p_read.kind = "ok") => c.out.val[1] <= p_read.val[1]
    IN  /\ (g.f = "set" /\ g.out.kind = "ok") =>
              Applied(g) /\ p_cap = g.out.val[1]
        /\ (s.f = "set" /\ s.out.kind = "ok" /\ g.f = "get") =>
              Applied(s) /\ g.out = s.out

\* an unprivileged set_pipe_size of a size that is not a whole number of
\* pages grew the pipe, and get_pipe_size then returned the rounded size
C12_Witness ==
    /\ ~p_priv /\ p_read.kind = "ok"
    /\ p_hist[1].f = "set" /\ p_hist[1].out.kind = "ok"
    /\ p_hist[1].size % PageSize # 0
    /\ p_hist[1].out.val[1] > p_hist[1].before
    /\ p_hist[2].f = "get" /\ p_hist[2].out = p_hist[1].out

\* set_pipe_size was called without privilege with a size above the value
\* read_pipe_max_size returned
AboveCeiling(c) ==
    /\ c.f = "set" /\ ~p_priv
    /\ p_read.kind = "ok" /\ c.size > p_read.val[1]

\* C13: set_pipe_size(fd, size) with size greater than the value returned
\* by read_pipe_max_size, called without privilege, raises an error with
\* errno EPERM, and the capacity of the pipe, as a following get_pipe_size
\* reports it, is what it was before the call.
C13_AboveCeilingEPERM ==
    /\ AboveCeiling(p_hist[2]) =>
          p_hist[2].out = IOError(EPERM) /\ p_cap = p_hist[2].before
    /\ (AboveCeiling(p_hist[1]) /\ p_hist[2].f = "get") =>
          /\ p_hist[1].out = IOError(EPERM)
          /\ p_hist[2].out = Ok(<<p_hist[1].before>>)

\* a refused set_pipe_size one byte above the limit, then get_pipe_size
C13_Witness ==
    /\ AboveCeiling(p_hist[1]) /\ p_hist[1].size = p_read.val[1] + 1
    /\ p_hist[1].out = IOError(EPERM)
    /\ p_hist[2].f = "get" /\ p_hist[2].out.kind = "ok"

\* the O_NONBLOCK bit is set in flags
HasNonBlock(flags) == (flags \div O_NONBLOCK) % 2 = 1

\* flags with the O_NONBLOCK bit set and every other bit as it is
WithNonBlock(flags) == IF HasNonBlock(flags) THEN flags ELSE flags + O_NONBLOCK

C14_Inv ==
    \A fd \in madeNB : HasNonBlock(fl[fd]) /\ fl[fd] - O_NONBLOCK = OpenFlags[fd]

C14_Step ==
    \A fd \in Fds :
        /\ fl'[fd] \in {fl[fd], WithNonBlock(fl[fd])}
        /\ fd \in madeNB' => fl'[fd] = WithNonBlock(fl[fd])
        /\ fd \notin madeNB' => fl'[fd] = fl[fd]

\* C14: make_non_blocking(fd) adds the non-blocking bit and nothing else:
\* the status flags of fd after the call are the flags before it with
\* O_NONBLOCK set and every other bit as it was, no other descriptor's
\* flags change, and a further call leaves the flags as they are.
C14_AddsNonBlockOnly == []C14_Inv /\ [][C14_Step]_vars

\* make_non_blocking has run on both pipe descriptors; Bw kept O_WRONLY
C14_Witness ==
    /\ madeNB = PipeFds
    /\ fl["Ar"] = O_NONBLOCK /\ fl["Bw"] = O_NONBLOCK + 1 /\ fl["F"] = 0

\* the log of run_and_retry_while_ewouldblock: positions and counts
Waits == {i \in 1..Len(g_log) : g_log[i].f = "wait"}
Actions == {i \in 1..Len(g_log) : g_log[i].f = "action"}
WouldBlock(i) == g_log[i].out = OSError(EWOULDBLOCK)
Completed(i) == g_log[i].out.kind = "ok"
\* the call has ended with a success of action
Succeeded ==
    /\ g_pc = "done" /\ g_log # <<>>
    /\ g_log[Len(g_log)].f = "action" /\ Completed(Len(g_log))

InThenOut(a) == << <<a.fd_in, "read">>, <<a.fd_out, "write">> >>

C16_Inv ==
    /\ pc = "retry" => reg = InThenOut(args) /\ nTramp = 2 * nWB
    /\ pc = "wait" => reg \in {SubSeq(InThenOut(args), 1, 1), InThenOut(args)}

C16_Step ==
    \* a raw syscall that follows a would-block failure follows both calls
    /\ (nSys' = nSys + 1 /\ nWB >= 1) => reg = InThenOut(args) /\ nTramp = 2 * nWB
    \* a would-block failure is followed by the call for fd_in
    /\ nWB' = nWB + 1 =>
          reg' = SubSeq(InThenOut(args), 1, 1) /\ nTramp' = nTramp + 1 /\ pc' = "wait"
    \* the call for fd_out follows the one for fd_in with no raw syscall between
    /\ (pc = "wait" /\ Len(reg) = 1) =>
          /\ nSys' = nSys /\ pc' = "wait"
          /\ reg' \in {reg, InThenOut(args)}
          /\ nTramp' = nTramp + (Len(reg') - Len(reg))
    \* no third call: after the second the raw syscall is retried
    /\ (pc = "wait" /\ Len(reg) = 2) => nTramp' = nTramp /\ reg' = reg

\* C16: in the eventlet tee/splice every would-block cycle calls
\* eventlet.hubs.trampoline exactly twice before the raw syscall is
\* retried, first for fd_in with read=True and then for fd_out with
\* write=True, and no raw syscall is invoked between the two calls.
C16_TwoWaitsInOrder == []C16_Inv /\ [][C16_Step]_vars

\* the raw syscall is about to be retried after the second complete cycle
C16_Witness ==
    /\ pc = "retry" /\ nWB = 2 /\ nTramp = 4 /\ nSys = 2
    /\ reg = InThenOut(args)

\* an outcome of action or wait that is an error other than would-block
OtherError(i) == ~Completed(i) /\ ~WouldBlock(i)

\* C17: in run_and_retry_while_ewouldblock only would-block failures start
\* another wait/retry cycle: wait is invoked only after a would-block
\* failure, and any other error raised by action, on the first attempt or
\* after a wait, EINTR included, ends the call at once with that error
\* raised to the caller, no wait or action being invoked after it.
C17_OnlyWouldBlockCycles ==
    /\ \A i \in Waits : i > 1 /\ WouldBlock(i - 1)
    /\ \A i \in Actions :
          OtherError(i) =>
              /\ i = Len(g_log)
              /\ g_pc = "done"
              /\ g_out = g_log[i].out

\* action failed with EINTR after a would-block failure and a completed wait
C17_Witness ==
    /\ Len(g_log) = 3 /\ g_pc = "done" /\ g_out = OSError(EINTR)
    /\ WouldBlock(1) /\ 2 \in Waits /\ Completed(2)
    /\ 3 \in Actions /\ g_log[3].out = OSError(EINTR)

Pending == pc \in {"first", "retry", "wait"}

\* every readiness wait eventually returns
WaitsReturn == [](pc = "wait" => <>(pc # "wait"))

\* the last raw syscall failed with a transient code
TransientFailure == last.sys /\ last.ret = -1 /\ last.errno \in {EINTR, EWOULDBLOCK}

\* C19 as stated: provided every readiness wait eventually returns (the
\* transient failures of one call are finitely many in every behaviour of
\* the model), a call of tee / splice eventually returns or raises.
C19_EventuallyCompletes == WaitsReturn => [](Pending => <>(pc = "done"))

\* C19: provided non-blocking operation was requested (SPLICE_F_NONBLOCK in
\* flags, or make_non_blocking called on a pipe descriptor of the
\* transfer), the raw syscall fails with EINTR or EWOULDBLOCK only finitely
\* many times and every readiness wait eventually returns, a call of the
\* eventlet tee / splice eventually returns or raises; and a transient
\* failure never ends the call: after one the call goes on (there is no
\* bound on attempts), so it never gives up with an error because of
\* transient failures.
C19_CompletesWhenNonBlocking ==
    /\ WaitsReturn => []((Pending /\ NBRequested) => <>(pc = "done"))
    /\ [](TransientFailure => Pending /\ outcome = NoOutcome)

\* a non-blocking call returned its result after the largest number of
\* would-block cycles and an interrupted attempt
C19_Witness ==
    /\ NBRequested /\ pc = "done" /\ outcome.kind = "ok"
    /\ nWB >= 2 /\ nIntr >= 1 /\ nSys = nWB + nIntr + 1

\* a greenlet at position p holds the thread
Runs(p) == p \in {"first", "retry"}

\* the state of each transfer and of the pipes behind its descriptors
Own1 == <<cvars, nSys, nIntr, nWB, nOk, nTramp, reg, susp, last>>
View1 == <<Own1, pipe["A"], pipe["B"]>>
Own2 == c2vars
View2 == <<Own2, pipe["C"], pipe["D"]>>

\* non-blocking operation was requested for the second transfer
NBRequested2 ==
    \/ BitAnd(args2.flags, SPLICE_F_NONBLOCK) # 0
    \/ \E fd \in madeNB \cap {args2.fd_in, args2.fd_out} : IsPipe(fd)

\* a transfer whose awaited descriptor is ready stays suspended because the
\* other transfer sleeps in the kernel inside its raw syscall
HeldUp1 == blocked2 /\ pc = "wait" /\ Ready(reg[Len(reg)])
HeldUp2 == blocked /\ pc2 = "wait" /\ Ready(reg2[Len(reg2)])

\* at most one transfer runs, and only a running one can be inside a raw
\* syscall
C20_Inv ==
    /\ ~(Runs(pc) /\ Runs(pc2))
    /\ blocked => Runs(pc)
    /\ blocked2 => Runs(pc2)

C20_Step ==
    \* a step of one transfer is taken while the other is at a suspension
    \* point (or not started, or ended), and leaves the other's state and
    \* pipes as they are
    /\ Own1' # Own1 => Suspended(pc2) /\ View2' = View2
    /\ Own2' # Own2 => Suspended(pc) /\ View1' = View1
    \* the result of a transfer is what its own pipes give it
    /\ (Runs(pc2) /\ pc2' = "done" /\ outcome2'.kind = "ok") =>
          /\ outcome2'.val[1] = Min(args2.len, Len(pipe["C"]))
          /\ pipe'["D"] = pipe["D"] \o Take(pipe["C"], outcome2'.val[1])
          /\ pipe'["C"] = IF op2 = "tee" THEN pipe["C"]
                          ELSE Drop(pipe["C"], outcome2'.val[1])
    /\ (harness = "pair" /\ Runs(pc) /\ pc' = "done" /\ outcome'.kind = "ok") =>
          /\ outcome'.val[1] = Min(args.len, Len(pipe["A"]))
          /\ pipe'["B"] = pipe["B"] \o Take(pipe["A"], outcome'.val[1])
          /\ pipe'["A"] = IF op = "tee" THEN pipe["A"]
                          ELSE Drop(pipe["A"], outcome'.val[1])

====
